---- MODULE Spec2Model ----
(***************************************************************************)
(* A model of the Phaser SoundAnalyse plugin (src/SoundAnalyse/            *)
(* SoundAnalyse.js): the Phaser.SoundAnalyser object (configuration,       *)
(* per-frame update, consumer registry) and the static re-sampling         *)
(* functions getAvgData / eachAvgData; and of the LocalStorage plugin      *)
(* (src/LocalStorage/LocalStorage.js); and of the SaveCPU plugin           *)
(* (src/LocalStorage/README.md, lines 118-248) inside Phaser's game loop.  *)
(*                                                                         *)
(* Representation choices.                                                 *)
(*  - A JavaScript value that can be a number or an object is a record     *)
(*    [t |-> typeof, v |-> number or object id].                           *)
(*  - Arrays of the analyser (Uint8Array of 17..2048 bytes) live in `heap` *)
(*    under an object id and are stored run-length encoded: a sequence of  *)
(*    runs [v |-> byte, n |-> count].  Length, element order and the sum   *)
(*    of the elements are exactly those of the array.                      *)
(*  - The host (Web Audio context, Phaser.Sound, the random generator) is  *)
(*    not part of the repository: what it supplies is an input of the      *)
(*    action that reads it, drawn from a small set.                        *)
(***************************************************************************)
EXTENDS Integers, Sequences, FiniteSets, TLC

VARIABLES
    context,                \* host: which Web Audio factories exist
    argAllowFakeData,       \* the allowFakeData argument given to the constructor
    allowFakeData,          \* this.allowFakeData
    supportAnalyse,         \* this.supportAnalyse
    analyserNode,           \* this.analyserNode: NullNode or the node's settings
    splitAnalyseNodeLeft,   \* this.splitAnalyseNodeLeft: NullNode or [fftSize |-> n]
    splitAnalyseNodeRight,  \* this.splitAnalyseNodeRight: NullNode or [fftSize |-> n]
    _fastFourierTransform,  \* this._fastFourierTransform
    _minDecibels,           \* this._minDecibels
    _maxDecibels,           \* this._maxDecibels
    _bufferLength,          \* this._bufferLength
    _dataArray,             \* this._dataArray: NoObject or an object id
    _dataTimeArray,         \* this._dataTimeArray: NoObject or an object id
    heap,                   \* object id -> array contents (run-length encoded)
    bmpSoundAnalyze,        \* this.bmpSoundAnalyze: the consumer registry
    isPlaying,              \* Phaser.Sound's isPlaying
    pc,                     \* "idle", or "loop" while update runs its consumer loop
    k,                      \* update's loop index
    locals,                 \* update's volMeter, averageLeft, averageRight
    log,                    \* calls made by the update in progress or just returned
    last,                   \* the last operation called and what it threw, or "none"
    regOp,                  \* the last registry operation, its argument and pre-state
    rs,                     \* the re-sampler call under check (pure functions part)
    kept,                   \* the frame a listener kept hold of, and what it held then
    localStorage,           \* the browser's localStorage: item name -> item text
    storageHost,            \* what the browser offers as localStorage
    id,                     \* Phaser.Plugin.LocalStorage: this.id
    supported,              \* Phaser.Plugin.LocalStorage: this.supported
    lsLast,                 \* the last call made on the plugin, and what it returned
    tick,                   \* the registry when update's tick began, and who left since
    sprite,                 \* the Phaser.SoundAnalyseSprite made on the analyser, if any
    game,                   \* Phaser.Game: renderType and updateRender
    input,                  \* game.input: pointer position and state, and those recorded
    saveCPU,                \* Phaser.Plugin.SaveCPU: the plugin's fields
    frame                   \* the game loop: its position in the frame, what it rendered

vars == <<context, argAllowFakeData, allowFakeData, supportAnalyse, analyserNode,
          splitAnalyseNodeLeft, splitAnalyseNodeRight, _fastFourierTransform,
          _minDecibels, _maxDecibels, _bufferLength, _dataArray, _dataTimeArray,
          heap, bmpSoundAnalyze, isPlaying, pc, k, locals, log, last, regOp, rs,
          kept, localStorage, storageHost, id, supported, lsLast, tick, sprite,
          game, input, saveCPU, frame>>

\* the variables of the LocalStorage plugin and of the storage it wraps
storageVars == <<localStorage, storageHost, id, supported, lsLast>>

\* the variables of the SaveCPU plugin and of the game loop it is hooked into
cpuVars == <<game, input, saveCPU, frame>>

NULL == "null"                  \* null, where a consumer is expected
NullNode == [isNull |-> TRUE]   \* null, where an audio node is expected
NoObject == 0                   \* null, where an object id is expected

\* ---------------------------------------------------------------- bounds
MaxReg == 3             \* most entries the registry is let grow to
MaxLen == 7             \* longest sample array given to the re-sampler
MaxItems == 2           \* most items the browser's storage takes
MaxDiff == 51           \* longest time (ms) since this.hrts that is told apart

\* ------------------------------------------------------ program constants
DefaultFFT == 2048
MinFFT == 32
MaxFFT == 2048
DefaultMinDecibels == -150
DefaultMaxDecibels == 10
DefaultNormalize == 256

\* ------------------------------------------------------------- JS values
Num(n) == [t |-> "number", v |-> n]
Obj(oid) == [t |-> "object", v |-> oid]
\* the string that spells the number n
Str(n) == [t |-> "string", v |-> n]
Undef == [t |-> "undefined", v |-> 0]
Bool(b) == [t |-> "boolean", v |-> IF b THEN 1 ELSE 0]
NaN == [t |-> "number(NaN)", v |-> 0]

Abs(n) == IF n < 0 THEN -n ELSE n
Min(a, b) == IF a < b THEN a ELSE b

\* ------------------------------------------------- run-length encoded arrays
Run(v, n) == [v |-> v, n |-> n]

RECURSIVE ALen(_)
ALen(a) == IF a = << >> THEN 0 ELSE Head(a).n + ALen(Tail(a))

RECURSIVE ASum(_)
ASum(a) == IF a = << >> THEN 0 ELSE Head(a).v * Head(a).n + ASum(Tail(a))

\* canonical form: no empty run, no two adjacent runs of one value
RECURSIVE Normalize(_)
Normalize(a) ==
    IF a = << >> THEN << >>
    ELSE IF Head(a).n = 0 THEN Normalize(Tail(a))
    ELSE LET r == Normalize(Tail(a)) IN
         IF r # << >> /\ Head(r).v = Head(a).v
         THEN <<Run(Head(a).v, Head(a).n + Head(r).n)>> \o Tail(r)
         ELSE <<Head(a)>> \o r

\* the array without its first m elements
RECURSIVE ADrop(_, _)
ADrop(a, m) ==
    IF a = << >> \/ m = 0 THEN a
    ELSE IF Head(a).n <= m THEN ADrop(Tail(a), m - Head(a).n)
    ELSE <<Run(Head(a).v, Head(a).n - m)>> \o Tail(a)

\* new Uint8Array(n): n zero bytes
NewUint8Array(n) == Normalize(<<Run(0, n)>>)

\* AnalyserNode.getByte...Data(array): the node writes `count` values into the
\* array it is given, as many as fit; elements beyond stay as they were.
FillArray(a, count, v) ==
    LET m == Min(count, ALen(a)) IN Normalize(<<Run(v, m)>> \o ADrop(a, m))

\* AnalyserNode.frequencyBinCount: half the node's fftSize
frequencyBinCount(node) == node.fftSize \div 2

\* ------------------------------------------------------------- the host
\* A host offers createAnalyser or not, and createChannelSplitter or not (a
\* context is taken to offer the splitter only along with the analyser).
HostKinds ==
    {h \in [createAnalyser : BOOLEAN, createChannelSplitter : BOOLEAN] :
        h.createChannelSplitter => h.createAnalyser}

\* What the analysis nodes deliver in one frame: the byte value written into
\* the frequency array, the time-domain array, and the left and right arrays.
Signals ==
    { [freq |-> 0,   time |-> 128, left |-> 0,   right |-> 0],
      [freq |-> 200, time |-> 90,  left |-> 250, right |-> 10] }

\* Values given to the fastFourierTransform setter.
FFTInputs == { Num(16), Num(33), Num(34), Num(2048), Num(4096), Str(64) }

Consumers == {"bmp1", "bmp2"}

\* update's local variables before they are assigned
NoLocals == [volMeter |-> Undef, averageLeft |-> Undef, averageRight |-> Undef]

\* no frame is kept
NoFrame == [on |-> FALSE, later |-> FALSE, data |-> NoObject, time |-> NoObject,
            dataWas |-> << >>, timeWas |-> << >>]

\* no call has been made on the LocalStorage plugin
NoCall == [op |-> "none", key |-> << >>, value |-> <<"undefined">>,
           ret |-> <<"undefined">>, threw |-> "none", everSet |-> {}]

\* the LocalStorage plugin is not loaded
StorageUnused ==
    /\ localStorage = << >>
    /\ storageHost = "object"
    /\ id = << >>
    /\ supported = FALSE
    /\ lsLast = NoCall

\* no tick of update is in progress
NoTick == [registry |-> << >>, removed |-> {}]

\* no SoundAnalyseSprite has been made
NoSprite == [state |-> "none", bmpAnalyseTexture |-> NULL]

\* Phaser.Plugin.SaveCPU is not loaded: the game renders every frame
CpuUnused ==
    /\ game = [updateRender |-> "none", renderType |-> "CANVAS"]
    /\ input = [x |-> Num(0), y |-> Num(0), isDown |-> Bool(FALSE),
                oldx |-> Undef, oldy |-> Undef, oldDown |-> Undef]
    /\ saveCPU = [loaded |-> FALSE]
    /\ frame = [phase |-> "off"]

\* ------------------------------------------------------------ constructor
\* line 43: the argument is ignored
ctorAllowFakeData(arg) == TRUE

\* The state a constructor call leaves (lines 35-239), on host ctx with the
\* argument allowFakeData = arg.
Constructed(ctx, arg) ==
    /\ context = ctx
    /\ argAllowFakeData = arg
    /\ allowFakeData = ctorAllowFakeData(arg)
    /\ _fastFourierTransform = DefaultFFT
    /\ _minDecibels = DefaultMinDecibels
    /\ _maxDecibels = DefaultMaxDecibels
    /\ bmpSoundAnalyze = << >>
    /\ supportAnalyse = ctx.createAnalyser
    /\ analyserNode = IF ctx.createAnalyser
                      THEN [fftSize |-> DefaultFFT, minDecibels |-> DefaultMinDecibels,
                            maxDecibels |-> DefaultMaxDecibels]
                      ELSE NullNode
    /\ splitAnalyseNodeLeft =
         IF ctx.createAnalyser /\ ctx.createChannelSplitter
         THEN [fftSize |-> DefaultFFT] ELSE NullNode
    /\ splitAnalyseNodeRight =
         IF ctx.createAnalyser /\ ctx.createChannelSplitter
         THEN [fftSize |-> DefaultFFT] ELSE NullNode
    /\ _bufferLength =
         IF ctx.createAnalyser THEN frequencyBinCount([fftSize |-> DefaultFFT])
         ELSE IF allowFakeData THEN DefaultFFT
         ELSE 0
    /\ _dataArray = IF ctx.createAnalyser \/ allowFakeData THEN 1 ELSE NoObject
    /\ _dataTimeArray = IF ctx.createAnalyser \/ allowFakeData THEN 2 ELSE NoObject
    /\ heap = IF ctx.createAnalyser \/ allowFakeData
              THEN [oid \in {1, 2} |-> NewUint8Array(_bufferLength)]
              ELSE [oid \in {} |-> << >>]
    /\ isPlaying = FALSE
    /\ pc = "idle"
    /\ k = 0
    /\ locals = NoLocals
    /\ log = << >>
    /\ last = [op |-> "construct", threw |-> "none"]
    /\ regOp = [name |-> "none", arg |-> NULL, before |-> << >>, chain0 |-> -1]
    /\ kept = NoFrame
    /\ tick = NoTick
    /\ sprite = NoSprite

Init ==
    /\ \E ctx \in HostKinds, arg \in BOOLEAN : Constructed(ctx, arg)
    /\ rs = [pc |-> "off"]
    /\ StorageUnused
    /\ CpuUnused

\* ------------------------------------------------- fastFourierTransform setter
\* line 115: the test the setter applies
fftAccepts(val) ==
    /\ val.t = "number"
    /\ val.v >= MinFFT
    /\ val.v <= MaxFFT
    /\ val.v % 2 = 0

SetFastFourierTransform(val) ==
    /\ pc = "idle"
    /\ IF fftAccepts(val)
       THEN /\ _fastFourierTransform' = val.v
            /\ _bufferLength' = val.v
            /\ analyserNode' = IF supportAnalyse
                               THEN [analyserNode EXCEPT !.fftSize = val.v]
                               ELSE analyserNode
       ELSE UNCHANGED <<_fastFourierTransform, _bufferLength, analyserNode>>
    /\ log' = << >>
    /\ last' = [op |-> "fftSize", threw |-> "none"]
    /\ UNCHANGED <<context, argAllowFakeData, allowFakeData, supportAnalyse,
                   splitAnalyseNodeLeft, splitAnalyseNodeRight, _minDecibels,
                   _maxDecibels, _dataArray, _dataTimeArray, heap, bmpSoundAnalyze,
                   isPlaying, pc, k, locals, regOp, rs, kept,
                   storageVars, cpuVars, tick, sprite>>

\* ------------------------------------------- minDecibels / maxDecibels setters
\* Values given to the minDecibels and maxDecibels setters.
DecibelInputs == { Num(-30), Num(20), Num(60), Str(-10) }

\* lines 148-161.  On a host with an analyser the value is then assigned to the
\* AnalyserNode, which throws IndexSizeError for a minDecibels that is not below
\* its maxDecibels; nothing catches it, and _minDecibels is already assigned.
SetMinDecibels(val) ==
    /\ pc = "idle"
    /\ IF val.t = "number"
       THEN /\ _minDecibels' = val.v
            /\ IF ~supportAnalyse
               THEN /\ UNCHANGED analyserNode
                    /\ last' = [op |-> "minDecibels", threw |-> "none"]
               ELSE IF val.v < analyserNode.maxDecibels
               THEN /\ analyserNode' = [analyserNode EXCEPT !.minDecibels = val.v]
                    /\ last' = [op |-> "minDecibels", threw |-> "none"]
               ELSE /\ UNCHANGED analyserNode
                    /\ last' = [op |-> "minDecibels", threw |-> "IndexSizeError"]
       ELSE /\ UNCHANGED <<_minDecibels, analyserNode>>
            /\ last' = [op |-> "minDecibels", threw |-> "none"]
    /\ log' = << >>
    /\ UNCHANGED <<context, argAllowFakeData, allowFakeData, supportAnalyse,
                   splitAnalyseNodeLeft, splitAnalyseNodeRight, _fastFourierTransform,
                   _maxDecibels, _bufferLength, _dataArray, _dataTimeArray, heap,
                   bmpSoundAnalyze, isPlaying, pc, k, locals, regOp, rs, kept,
                   storageVars, cpuVars, tick, sprite>>

\* lines 181-194.  The AnalyserNode throws IndexSizeError for a maxDecibels that
\* is not above its minDecibels.
SetMaxDecibels(val) ==
    /\ pc = "idle"
    /\ IF val.t = "number"
       THEN /\ _maxDecibels' = val.v
            /\ IF ~supportAnalyse
               THEN /\ UNCHANGED analyserNode
                    /\ last' = [op |-> "maxDecibels", threw |-> "none"]
               ELSE IF val.v > analyserNode.minDecibels
               THEN /\ analyserNode' = [analyserNode EXCEPT !.maxDecibels = val.v]
                    /\ last' = [op |-> "maxDecibels", threw |-> "none"]
               ELSE /\ UNCHANGED analyserNode
                    /\ last' = [op |-> "maxDecibels", threw |-> "IndexSizeError"]
       ELSE /\ UNCHANGED <<_maxDecibels, analyserNode>>
            /\ last' = [op |-> "maxDecibels", threw |-> "none"]
    /\ log' = << >>
    /\ UNCHANGED <<context, argAllowFakeData, allowFakeData, supportAnalyse,
                   splitAnalyseNodeLeft, splitAnalyseNodeRight, _fastFourierTransform,
                   _minDecibels, _bufferLength, _dataArray, _dataTimeArray, heap,
                   bmpSoundAnalyze, isPlaying, pc, k, locals, regOp, rs, kept,
                   storageVars, cpuVars, tick, sprite>>

\* ------------------------------------------------------------ the registry
addBitmapSoundAnalyse(reg, bmp) == Append(reg, bmp)

\* lines 316-321: scan from the last index down, splice the first hit, stop
RECURSIVE removeFrom(_, _, _)
removeFrom(reg, bmp, i) ==
    IF i < 1 THEN reg
    ELSE IF reg[i] = bmp
         THEN SubSeq(reg, 1, i - 1) \o SubSeq(reg, i + 1, Len(reg))
         ELSE removeFrom(reg, bmp, i - 1)

\* faulty variant of removeFrom: the scan starts at the first index
RECURSIVE removeFromFront(_, _, _)
removeFromFront(reg, bmp, i) ==
    IF i > Len(reg) THEN reg
    ELSE IF reg[i] = bmp
         THEN SubSeq(reg, 1, i - 1) \o SubSeq(reg, i + 1, Len(reg))
         ELSE removeFromFront(reg, bmp, i + 1)

removeFirstBitmapSoundAnalyse(reg, bmp) == removeFromFront(reg, bmp, 1)

\* faulty variant of removeBitmapSoundAnalyse: no break, every match is spliced out
removeAllBitmapSoundAnalyse(reg, bmp) == SelectSeq(reg, LAMBDA e : e # bmp)

removeBitmapSoundAnalyse(reg, bmp) == removeFrom(reg, bmp, Len(reg))

AddBitmap(bmp) ==
    /\ pc = "idle"
    /\ Len(bmpSoundAnalyze) < MaxReg
    /\ bmpSoundAnalyze' = addBitmapSoundAnalyse(bmpSoundAnalyze, bmp)
    /\ regOp' = [name |-> "add", arg |-> bmp, before |-> bmpSoundAnalyze, chain0 |-> -1]
    /\ log' = << >>
    /\ last' = [op |-> "add", threw |-> "none"]
    /\ UNCHANGED <<context, argAllowFakeData, allowFakeData, supportAnalyse,
                   analyserNode, splitAnalyseNodeLeft, splitAnalyseNodeRight,
                   _fastFourierTransform, _minDecibels, _maxDecibels, _bufferLength,
                   _dataArray, _dataTimeArray, heap, isPlaying, pc, k, locals, rs, kept,
                   storageVars, cpuVars, tick, sprite>>

RemoveBitmap(bmp) ==
    /\ pc = "idle"
    /\ bmpSoundAnalyze' = removeBitmapSoundAnalyse(bmpSoundAnalyze, bmp)
    /\ regOp' = [name |-> "remove", arg |-> bmp, before |-> bmpSoundAnalyze,
                 chain0 |-> IF regOp.name = "add" /\ regOp.arg = bmp
                            THEN Len(regOp.before) ELSE -1]
    /\ log' = << >>
    /\ last' = [op |-> "remove", threw |-> "none"]
    /\ UNCHANGED <<context, argAllowFakeData, allowFakeData, supportAnalyse,
                   analyserNode, splitAnalyseNodeLeft, splitAnalyseNodeRight,
                   _fastFourierTransform, _minDecibels, _maxDecibels, _bufferLength,
                   _dataArray, _dataTimeArray, heap, isPlaying, pc, k, locals, rs, kept,
                   storageVars, cpuVars, tick, sprite>>

\* --------------------------------------------------------- playback (host)
SoundPlay ==
    /\ pc = "idle"
    /\ ~isPlaying
    /\ isPlaying' = TRUE
    /\ log' = << >>
    /\ last' = [op |-> "play", threw |-> "none"]
    /\ UNCHANGED <<context, argAllowFakeData, allowFakeData, supportAnalyse,
                   analyserNode, splitAnalyseNodeLeft, splitAnalyseNodeRight,
                   _fastFourierTransform, _minDecibels, _maxDecibels, _bufferLength,
                   _dataArray, _dataTimeArray, heap, bmpSoundAnalyze, pc, k, locals,
                   regOp, rs, kept,
                   storageVars, cpuVars, tick, sprite>>

SoundStop ==
    /\ pc = "idle"
    /\ isPlaying
    /\ isPlaying' = FALSE
    /\ log' = << >>
    /\ last' = [op |-> "stop", threw |-> "none"]
    /\ UNCHANGED <<context, argAllowFakeData, allowFakeData, supportAnalyse,
                   analyserNode, splitAnalyseNodeLeft, splitAnalyseNodeRight,
                   _fastFourierTransform, _minDecibels, _maxDecibels, _bufferLength,
                   _dataArray, _dataTimeArray, heap, bmpSoundAnalyze, pc, k, locals,
                   regOp, rs, kept,
                   storageVars, cpuVars, tick, sprite>>

\* ------------------------------------------------------------- getAvg
\* lines 332-342: floor(sum / length)
getAvg(dataArr) ==
    IF ALen(dataArr) = 0 THEN NaN ELSE Num(ASum(dataArr) \div ALen(dataArr))

\* ---------------------------------------------------------- getFakeData
\* The ends of the range of game.rnd.integerInRange(lo, hi), which is
\* Math.floor(frac() * (hi - lo + 1) + lo) with 0 <= frac() < 1: lo..hi when
\* lo <= hi, and (hi + 1)..lo when lo > hi.
RangeEnds(lo, hi) == IF lo <= hi THEN {lo, hi} ELSE {hi + 1, lo}

\* The values game.rnd.integerInRange(lo, hi) returns over the n calls of one
\* getFakeData: one value, then n - 1 times another, each an end of the range.
FakeDraws(n, lo, hi) ==
    IF n < 1 THEN { << >> }
    ELSE { Normalize(<<Run(a, 1), Run(b, n - 1)>>) :
              a \in RangeEnds(lo, hi), b \in RangeEnds(lo, hi) }

RECURSIVE InsertDesc(_, _)
InsertDesc(r, s) ==
    IF s = << >> THEN <<r>>
    ELSE IF r.v >= Head(s).v THEN <<r>> \o s
    ELSE <<Head(s)>> \o InsertDesc(r, Tail(s))

\* res.sort(function(a, b){return b-a})
RECURSIVE SortDesc(_)
SortDesc(a) == IF a = << >> THEN << >> ELSE InsertDesc(Head(a), SortDesc(Tail(a)))

\* faulty variant of getFakeData: the values are left in the order drawn
getFakeDataUnsorted(draws) ==
    Normalize([i \in 1..Len(draws) |-> Run(Abs(draws[i].v), draws[i].n)])

\* lines 350-357, given the draws of the random generator
getFakeData(draws) ==
    Normalize(SortDesc([i \in 1..Len(draws) |-> Run(Abs(draws[i].v), draws[i].n)]))

\* ---------------------------------------------------------------- update
\* the six arguments of a dispatch (lines 283 and 287)
FrameArgs(d, t, b, l) ==
    <<Obj(d), Obj(t), Num(b), l.volMeter, l.averageLeft, l.averageRight>>

\* faulty variant of NewId: an object in use is taken again
NewIdReused(live) == CHOOSE i \in 1..3 : i \in live /\ \A j \in 1..3 : j \in live => i <= j

\* an object id not in use
NewId(live) == CHOOSE i \in 1..3 : i \notin live /\ \A j \in 1..3 : j \notin live => i <= j

\* faulty variant of updateGuard: no isPlaying test
updateGuardAlways == TRUE

\* line 253
updateGuard == isPlaying

\* faulty variant of consumerAt: the loop runs from the last entry to the first
consumerAtReversed(reg, kk) == reg[Len(reg) - kk]

\* line 287: the registry entry the loop calls at index kk (0-based)
consumerAt(reg, kk) == reg[kk + 1]

UpdateIdle ==
    /\ log' = << >>
    /\ last' = [op |-> "update", threw |-> "none"]
    /\ UNCHANGED <<_dataArray, _dataTimeArray, heap, pc, k, locals, kept>>

\* the frame kept, if any, is now the frame of an earlier tick
Superseded(f) == IF f.on THEN [f EXCEPT !.later = TRUE] ELSE f

\* the arrays a listener still refers to
KeptIds == IF kept.on THEN {kept.data, kept.time} ELSE {}

UpdateBegin ==
    /\ pc = "idle"
    /\ IF ~updateGuard THEN UpdateIdle
       ELSE IF analyserNode # NullNode THEN
         \E sig \in Signals :
            LET filled == [heap EXCEPT
                    ![_dataArray] = FillArray(@, frequencyBinCount(analyserNode), sig.freq),
                    ![_dataTimeArray] = FillArray(@, analyserNode.fftSize, sig.time)]
            IN  IF splitAnalyseNodeLeft = NullNode
                THEN \* line 261: reading frequencyBinCount of null
                     /\ heap' = filled
                     /\ last' = [op |-> "update", threw |-> "TypeError"]
                     /\ log' = << >>
                     /\ UNCHANGED <<_dataArray, _dataTimeArray, pc, k, locals, kept>>
                ELSE LET nl == frequencyBinCount(splitAnalyseNodeLeft)
                         nr == frequencyBinCount(splitAnalyseNodeRight)
                         arrayLeft == FillArray(NewUint8Array(nl), nl, sig.left)
                         arrayRight == FillArray(NewUint8Array(nr), nr, sig.right)
                         loc == [volMeter |-> getAvg(filled[_dataArray]),
                                 averageLeft |-> getAvg(arrayLeft),
                                 averageRight |-> getAvg(arrayRight)]
                     IN /\ heap' = filled
                        /\ locals' = loc
                        /\ last' = [op |-> "update", threw |-> "none"]
                        /\ log' = << [target |-> "onAnalyseUpdate",
                                      args |-> FrameArgs(_dataArray, _dataTimeArray,
                                                         _bufferLength, loc),
                                      failed |-> FALSE] >>
                        /\ pc' = "loop"
                        /\ k' = 0
                        /\ kept' = Superseded(kept)
                        /\ UNCHANGED <<_dataArray, _dataTimeArray>>
       ELSE IF allowFakeData THEN
         \E draws \in FakeDraws(_bufferLength, _minDecibels, _maxDecibels) :
            LET fakeData == getFakeData(draws)
                oid == NewId({_dataArray, _dataTimeArray} \cup KeptIds)
                loc == [volMeter |-> Obj(oid),
                        averageLeft |-> getAvg(fakeData),
                        averageRight |-> Obj(oid)]
            IN  /\ _dataArray' = oid
                /\ _dataTimeArray' = oid
                /\ heap' = (oid :> fakeData) @@ [i \in KeptIds |-> heap[i]]
                /\ kept' = Superseded(kept)
                /\ locals' = loc
                /\ last' = [op |-> "update", threw |-> "none"]
                /\ log' = << [target |-> "onAnalyseUpdate",
                              args |-> FrameArgs(oid, oid, _bufferLength, loc),
                              failed |-> FALSE] >>
                /\ pc' = "loop"
                /\ k' = 0
       ELSE UpdateIdle
    /\ tick' = IF pc' = "loop" THEN [registry |-> bmpSoundAnalyze, removed |-> {}]
               ELSE NoTick
    /\ UNCHANGED <<context, argAllowFakeData, allowFakeData, supportAnalyse,
                   analyserNode, splitAnalyseNodeLeft, splitAnalyseNodeRight,
                   _fastFourierTransform, _minDecibels, _maxDecibels, _bufferLength,
                   bmpSoundAnalyze, isPlaying, regOp, rs, storageVars, cpuVars, sprite>>

\* lines 286-288: one turn of the consumer loop
UpdateConsumer ==
    /\ pc = "loop"
    /\ k < Len(bmpSoundAnalyze)
    /\ log' = Append(log, [target |-> consumerAt(bmpSoundAnalyze, k),
                           args |-> FrameArgs(_dataArray, _dataTimeArray,
                                              _bufferLength, locals),
                           failed |-> FALSE])
    /\ k' = k + 1
    /\ UNCHANGED <<context, argAllowFakeData, allowFakeData, supportAnalyse,
                   analyserNode, splitAnalyseNodeLeft, splitAnalyseNodeRight,
                   _fastFourierTransform, _minDecibels, _maxDecibels, _bufferLength,
                   _dataArray, _dataTimeArray, heap, bmpSoundAnalyze, isPlaying, pc,
                   locals, last, regOp, rs, kept,
                   storageVars, cpuVars, tick, sprite>>

\* the loop ends and update returns
UpdateReturn ==
    /\ pc = "loop"
    /\ k >= Len(bmpSoundAnalyze)
    /\ pc' = "idle"
    /\ k' = 0
    /\ locals' = NoLocals
    /\ tick' = NoTick
    /\ UNCHANGED <<context, argAllowFakeData, allowFakeData, supportAnalyse,
                   analyserNode, splitAnalyseNodeLeft, splitAnalyseNodeRight,
                   _fastFourierTransform, _minDecibels, _maxDecibels, _bufferLength,
                   _dataArray, _dataTimeArray, heap, bmpSoundAnalyze, isPlaying,
                   log, last, regOp, rs, kept,
                   storageVars, cpuVars, sprite>>

\* faulty variant of uncaught: the failure is swallowed and the loop goes on
caughtAndSkipped(kk) == [pc |-> "loop", k |-> kk, threw |-> "none"]

\* lines 281-290 have no try/catch: a failure in a listener or in a consumer
\* ends update at once and reaches update's caller.  kk is the loop index the
\* loop would go on with.
uncaught(kk) == [pc |-> "idle", k |-> 0, threw |-> "Error"]

\* line 283: a listener of onAnalyseUpdate throws during the dispatch
ListenerThrows ==
    /\ pc = "loop"
    /\ k = 0
    /\ Len(log) = 1
    /\ ~log[1].failed
    /\ log' = <<[log[1] EXCEPT !.failed = TRUE]>>
    /\ pc' = uncaught(0).pc
    /\ k' = uncaught(0).k
    /\ locals' = IF uncaught(0).pc = "idle" THEN NoLocals ELSE locals
    /\ last' = [op |-> "update", threw |-> uncaught(0).threw]
    /\ UNCHANGED <<context, argAllowFakeData, allowFakeData, supportAnalyse,
                   analyserNode, splitAnalyseNodeLeft, splitAnalyseNodeRight,
                   _fastFourierTransform, _minDecibels, _maxDecibels, _bufferLength,
                   _dataArray, _dataTimeArray, heap, bmpSoundAnalyze, isPlaying,
                   regOp, rs, kept, storageVars, cpuVars, tick, sprite>>

\* line 287: the consumer's updateAnalyse is called and throws
ConsumerThrows ==
    /\ pc = "loop"
    /\ k < Len(bmpSoundAnalyze)
    /\ \A i \in 1..Len(log) : ~log[i].failed
    /\ log' = Append(log, [target |-> consumerAt(bmpSoundAnalyze, k),
                           args |-> FrameArgs(_dataArray, _dataTimeArray,
                                              _bufferLength, locals),
                           failed |-> TRUE])
    /\ pc' = uncaught(k + 1).pc
    /\ k' = uncaught(k + 1).k
    /\ locals' = IF uncaught(k + 1).pc = "idle" THEN NoLocals ELSE locals
    /\ last' = [op |-> "update", threw |-> uncaught(k + 1).threw]
    /\ UNCHANGED <<context, argAllowFakeData, allowFakeData, supportAnalyse,
                   analyserNode, splitAnalyseNodeLeft, splitAnalyseNodeRight,
                   _fastFourierTransform, _minDecibels, _maxDecibels, _bufferLength,
                   _dataArray, _dataTimeArray, heap, bmpSoundAnalyze, isPlaying,
                   regOp, rs, kept, storageVars, cpuVars, tick, sprite>>

\* line 287: the consumer's updateAnalyse is called and, from inside the call,
\* calls removeBitmapSoundAnalyse(bmp) (lines 315-323) on the analyser: bmp is
\* the consumer itself or another one.  The loop then goes on with ++k and
\* tests k against the registry's length as it is now (line 286).
ConsumerRemoves(bmp) ==
    /\ pc = "loop"
    /\ k < Len(bmpSoundAnalyze)
    /\ log' = Append(log, [target |-> consumerAt(bmpSoundAnalyze, k),
                           args |-> FrameArgs(_dataArray, _dataTimeArray,
                                              _bufferLength, locals),
                           failed |-> FALSE])
    /\ bmpSoundAnalyze' = removeBitmapSoundAnalyse(bmpSoundAnalyze, bmp)
    /\ regOp' = [name |-> "remove", arg |-> bmp, before |-> bmpSoundAnalyze,
                 chain0 |-> -1]
    /\ tick' = [tick EXCEPT !.removed = @ \cup {bmp}]
    /\ k' = k + 1
    /\ UNCHANGED <<context, argAllowFakeData, allowFakeData, supportAnalyse,
                   analyserNode, splitAnalyseNodeLeft, splitAnalyseNodeRight,
                   _fastFourierTransform, _minDecibels, _maxDecibels, _bufferLength,
                   _dataArray, _dataTimeArray, heap, isPlaying, pc,
                   locals, last, rs, kept, storageVars, cpuVars, sprite>>

Next ==
    \/ \E val \in FFTInputs : SetFastFourierTransform(val)
    \/ \E bmp \in Consumers : AddBitmap(bmp)
    \/ \E bmp \in Consumers : RemoveBitmap(bmp)
    \/ SoundPlay
    \/ SoundStop
    \/ UpdateBegin
    \/ UpdateConsumer
    \/ UpdateReturn

Spec == Init /\ [][Next]_vars

\* ------------------------------------------------- Phaser.SoundAnalyseSprite
\* the names of the sprite and of the bitmap its constructor makes
SpriteObject == "sprite"
BitmapObject == "bmpAnalyseTexture"

\* line 1271: the object destroy hands to removeBitmapSoundAnalyse
destroyArgument(spr) == SpriteObject

\* lines 965-993: the constructor has made its analyser (line 973, the state
\* Init describes) and goes on: the BitmapDataSoundAnalyze it makes (line 977)
\* registers itself with that analyser (lines 645-647); autoPlay starts the song.
SpriteConstructor(autoPlay) ==
    /\ sprite.state = "none"
    /\ last.op = "construct"
    /\ sprite' = [state |-> "alive", bmpAnalyseTexture |-> BitmapObject]
    /\ bmpSoundAnalyze' = addBitmapSoundAnalyse(bmpSoundAnalyze, BitmapObject)
    /\ regOp' = [name |-> "add", arg |-> BitmapObject, before |-> bmpSoundAnalyze,
                 chain0 |-> -1]
    /\ isPlaying' = autoPlay
    /\ log' = << >>
    /\ last' = [op |-> "sprite", threw |-> "none"]
    /\ UNCHANGED <<context, argAllowFakeData, allowFakeData, supportAnalyse,
                   analyserNode, splitAnalyseNodeLeft, splitAnalyseNodeRight,
                   _fastFourierTransform, _minDecibels, _maxDecibels, _bufferLength,
                   _dataArray, _dataTimeArray, heap, pc, k, locals, rs, kept,
                   storageVars, cpuVars, tick>>

\* lines 1268-1279: destroy.  Phaser.Sound's destroy (line 1275) stops the sound.
\* The sprite record keeps the name of the bitmap the constructor made.
SpriteDestroy ==
    /\ sprite.state = "alive"
    /\ pc = "idle"
    /\ bmpSoundAnalyze' = removeBitmapSoundAnalyse(bmpSoundAnalyze, destroyArgument(sprite))
    /\ regOp' = [name |-> "remove", arg |-> destroyArgument(sprite),
                 before |-> bmpSoundAnalyze, chain0 |-> -1]
    /\ sprite' = [sprite EXCEPT !.state = "destroyed"]
    /\ isPlaying' = FALSE
    /\ log' = << >>
    /\ last' = [op |-> "destroy", threw |-> "none"]
    /\ UNCHANGED <<context, argAllowFakeData, allowFakeData, supportAnalyse,
                   analyserNode, splitAnalyseNodeLeft, splitAnalyseNodeRight,
                   _fastFourierTransform, _minDecibels, _maxDecibels, _bufferLength,
                   _dataArray, _dataTimeArray, heap, pc, k, locals, rs, kept,
                   storageVars, cpuVars, tick>>

NextSprite ==
    \/ \E autoPlay \in BOOLEAN : SpriteConstructor(autoPlay)
    \/ SpriteDestroy
    \/ \E bmp \in Consumers : AddBitmap(bmp)
    \/ SoundPlay
    \/ SoundStop
    \/ UpdateBegin
    \/ UpdateConsumer
    \/ UpdateReturn

SpecSprite == Init /\ [][NextSprite]_vars

\* the analyser with consumers that leave the registry during the dispatch
NextReentrant ==
    \/ \E bmp \in Consumers : AddBitmap(bmp)
    \/ SoundPlay
    \/ SoundStop
    \/ UpdateBegin
    \/ UpdateConsumer
    \/ \E bmp \in Consumers : ConsumerRemoves(bmp)
    \/ UpdateReturn

SpecReentrant == Init /\ [][NextReentrant]_vars

\* The analyser with listeners and consumers that may fail.
NextFailing ==
    \/ \E bmp \in Consumers : AddBitmap(bmp)
    \/ SoundPlay
    \/ SoundStop
    \/ UpdateBegin
    \/ UpdateConsumer
    \/ UpdateReturn
    \/ ListenerThrows
    \/ ConsumerThrows

SpecFailing == Init /\ [][NextFailing]_vars

\* A listener of onAnalyseUpdate keeps the two arrays it is handed, to read them
\* after later ticks; kept records the references and what the arrays held.
KeepFrame ==
    /\ pc = "loop"
    /\ ~kept.on
    /\ kept' = [on |-> TRUE, later |-> FALSE,
                data |-> log[1].args[1].v, time |-> log[1].args[2].v,
                dataWas |-> heap[log[1].args[1].v],
                timeWas |-> heap[log[1].args[2].v]]
    /\ UNCHANGED <<context, argAllowFakeData, allowFakeData, supportAnalyse,
                   analyserNode, splitAnalyseNodeLeft, splitAnalyseNodeRight,
                   _fastFourierTransform, _minDecibels, _maxDecibels, _bufferLength,
                   _dataArray, _dataTimeArray, heap, bmpSoundAnalyze, isPlaying, pc, k,
                   locals, log, last, regOp, rs, storageVars, cpuVars, tick, sprite>>

\* The analyser with a listener that keeps one frame, no consumer registered.
NextFrames ==
    \/ \E val \in FFTInputs : SetFastFourierTransform(val)
    \/ SoundPlay
    \/ SoundStop
    \/ UpdateBegin
    \/ UpdateReturn
    \/ KeepFrame

SpecFrames == Init /\ [][NextFrames]_vars

\* The analyser with its decibel range reconfigured and no consumer registered.
NextDecibels ==
    \/ \E val \in DecibelInputs : SetMinDecibels(val)
    \/ \E val \in DecibelInputs : SetMaxDecibels(val)
    \/ \E val \in FFTInputs : SetFastFourierTransform(val)
    \/ SoundPlay
    \/ SoundStop
    \/ UpdateBegin
    \/ UpdateReturn

SpecDecibels == Init /\ [][NextDecibels]_vars

\* ============================================================ the re-sampler
\* getAvgData and eachAvgData are static functions of their arguments (and of
\* one global variable): they are checked under SpecResample, whose initial
\* states draw the arguments and whose actions make one call.

Infinity == [t |-> "number(Infinity)", v |-> 0]

\* Math.floor(a / b) for integers a >= 0, b >= 0
FloorDiv(a, b) ==
    IF b = 0 THEN (IF a = 0 THEN NaN ELSE Infinity) ELSE Num(a \div b)

\* Math.round(n / m) for integers n >= 0, m > 0 (halves round up)
RoundDiv(n, m) == (2 * n + m) \div (2 * m)

\* percent = value / maxMinValue; size = Math.floor(outMaxValue * percent)
\* (value a number, NaN or Infinity; the two scales positive numbers or undefined)
ScaleValue(value, maxMinValue, outMaxValue) ==
    IF value = NaN \/ maxMinValue.t # "number" \/ outMaxValue.t # "number" THEN NaN
    ELSE IF value = Infinity THEN Infinity
    ELSE Num((outMaxValue.v * value.v) \div maxMinValue.v)

\* x || y for x, y numbers or undefined
OrElse(x, y) == IF x.t = "number" /\ x.v # 0 THEN x ELSE y

\* lines 391-394 and 456-459: the inner loop, from source index i (0-based);
\* read lists the indices of dataArray that the loop reads, in order
RECURSIVE innerLoop(_, _, _, _, _, _)
innerLoop(dataArray, bufferLength, destPart, kk, i, avg) ==
    IF kk < destPart /\ i < bufferLength
    THEN LET r == innerLoop(dataArray, bufferLength, destPart, kk + 1, i + 1,
                            avg + dataArray[i + 1])
         IN  [r EXCEPT !.read = <<i>> \o @]
    ELSE [avg |-> avg, i |-> i, read |-> << >>]

\* lines 406-408 and 472-474: the sum of the samples from index i on, and the
\* indices read
RECURSIVE restLoop(_, _, _, _)
restLoop(dataArray, bufferLength, i, avg) ==
    IF i < bufferLength
    THEN LET r == restLoop(dataArray, bufferLength, i + 1, avg + dataArray[i + 1])
         IN  [r EXCEPT !.read = <<i>> \o @]
    ELSE [avg |-> avg, read |-> << >>]

\* line 395, 409 (460, 475): the divisor of a run's sum
runDivisor(destPart, count) == destPart

\* lines 389-402: the loop over the result slots; res is the array built so far
RECURSIVE getAvgLoop(_, _, _, _, _, _, _, _)
getAvgLoop(dataArray, bufferLength, destBars, destPart, maxMinValue, outMaxValue, x, st) ==
    IF x < destBars
    THEN LET r == innerLoop(dataArray, bufferLength, destPart, 0, st.i, 0)
             size == ScaleValue(FloorDiv(r.avg, runDivisor(destPart, r.i - st.i)),
                                maxMinValue, outMaxValue)
             st2 == [res |-> Append(st.res, size), i |-> r.i, x |-> x,
                     reads |-> Append(st.reads, r.read)]
         IN  IF r.i >= bufferLength THEN st2
             ELSE getAvgLoop(dataArray, bufferLength, destBars, destPart,
                             maxMinValue, outMaxValue, x + 1, st2)
    ELSE [st EXCEPT !.x = x]

\* lines 371-417.  global is the global variable normalizeValue that line 372
\* reads: [declared |-> whether the host page declares it, val |-> its value].
getAvgData(dataArray, bufferLength, resultSlots, maxMinValue, outMaxValue, global) ==
    IF ~global.declared
    THEN [threw |-> "ReferenceError", ret |-> << >>, reads |-> << >>]
    ELSE IF bufferLength = resultSlots
    THEN [threw |-> "none",
          ret |-> [i \in 1..bufferLength |->
                      ScaleValue(Num(dataArray[i]), maxMinValue, outMaxValue)],
          reads |-> [i \in 1..bufferLength |-> <<i - 1>>]]
    ELSE LET destBars == resultSlots
             destPart == RoundDiv(bufferLength, destBars)
             st == getAvgLoop(dataArray, bufferLength, destBars, destPart,
                              maxMinValue, outMaxValue, 0,
                              [res |-> << >>, i |-> 0, x |-> 0, reads |-> << >>])
         IN  IF st.i < bufferLength
             THEN LET r == restLoop(dataArray, bufferLength, st.i, 0)
                      size == ScaleValue(
                                 FloorDiv(r.avg, runDivisor(destPart, bufferLength - st.i)),
                                 maxMinValue, outMaxValue)
                  IN [threw |-> "none", ret |-> Append(st.res, size),
                      reads |-> Append(st.reads, r.read)]
             ELSE [threw |-> "none", ret |-> st.res, reads |-> st.reads]

\* one call of the callback: callback.call(context, size, percent, x, i)
Visit(size, value, maxMinValue, x, i) ==
    [size |-> size, percent |-> [num |-> value, den |-> maxMinValue], x |-> x, i |-> i]

\* lines 454-468: the loop over the result slots; calls is the calls made so far
RECURSIVE eachAvgLoop(_, _, _, _, _, _, _, _)
eachAvgLoop(dataArray, bufferLength, destBars, destPart, maxMinValue, outMaxValue, x, st) ==
    IF x < destBars
    THEN LET r == innerLoop(dataArray, bufferLength, destPart, 0, st.i, 0)
             value == FloorDiv(r.avg, runDivisor(destPart, r.i - st.i))
             size == ScaleValue(value, maxMinValue, outMaxValue)
             st2 == [calls |-> Append(st.calls, Visit(size, value, maxMinValue, x, r.i)),
                     i |-> r.i, x |-> x, reads |-> Append(st.reads, r.read)]
         IN  IF r.i >= bufferLength THEN st2
             ELSE eachAvgLoop(dataArray, bufferLength, destBars, destPart,
                              maxMinValue, outMaxValue, x + 1, st2)
    ELSE [st EXCEPT !.x = x]

\* lines 433-485: the calls of the callback, in order; the function returns []
eachAvgData(dataArray, bufferLength, resultSlots, maxMinValue0, outMaxValue0) ==
    LET maxMinValue == OrElse(maxMinValue0, Num(DefaultNormalize))
        outMaxValue == OrElse(outMaxValue0, maxMinValue)
    IN
    IF bufferLength = resultSlots
    THEN [threw |-> "none", ret |-> << >>,
          calls |-> [j \in 1..bufferLength |->
                       Visit(ScaleValue(Num(dataArray[j]), maxMinValue, outMaxValue),
                             Num(dataArray[j]), maxMinValue, j - 1, j - 1)],
          reads |-> [j \in 1..bufferLength |-> <<j - 1>>]]
    ELSE LET destBars == resultSlots
             destPart == RoundDiv(bufferLength, destBars)
             st == eachAvgLoop(dataArray, bufferLength, destBars, destPart,
                               maxMinValue, outMaxValue, 0,
                               [calls |-> << >>, i |-> 0, x |-> 0, reads |-> << >>])
         IN  IF st.i < bufferLength
             THEN LET r == restLoop(dataArray, bufferLength, st.i, 0)
                      value == FloorDiv(r.avg, runDivisor(destPart, bufferLength - st.i))
                      size == ScaleValue(value, maxMinValue, outMaxValue)
                  IN [threw |-> "none", ret |-> << >>,
                      calls |-> Append(st.calls,
                                  Visit(size, value, maxMinValue, st.x + 1,
                                        bufferLength)),
                      reads |-> Append(st.reads, r.read)]
             ELSE [threw |-> "none", ret |-> << >>, calls |-> st.calls,
                   reads |-> st.reads]

\* ------------------------------------------------ the calls that are checked
Samples == {3, 255}

SampleArrays == UNION { [1..n -> Samples] : n \in 1..MaxLen }

\* (maxMinValue, outMaxValue) pairs given by the callers; an argument left out
\* is undefined
Scales == { [maxMinValue |-> Num(256), outMaxValue |-> Num(100)],
            [maxMinValue |-> Num(255), outMaxValue |-> Num(255)],
            [maxMinValue |-> Num(255), outMaxValue |-> Undef],
            [maxMinValue |-> Undef, outMaxValue |-> Num(100)],
            [maxMinValue |-> Undef, outMaxValue |-> Undef] }

\* the global variable normalizeValue: not declared, or declared and unset
Globals == { [declared |-> FALSE, val |-> Undef], [declared |-> TRUE, val |-> Undef] }

InitResample ==
    /\ Constructed([createAnalyser |-> TRUE, createChannelSplitter |-> TRUE], FALSE)
    /\ StorageUnused
    /\ CpuUnused
    /\ \E d \in SampleArrays, m \in 1..(MaxLen + 1), sc \in Scales, g \in Globals :
         rs = [pc |-> "ready", dataArray |-> d, bufferLength |-> Len(d),
               resultSlots |-> m, maxMinValue |-> sc.maxMinValue,
               outMaxValue |-> sc.outMaxValue, global |-> g,
               out |-> [threw |-> "none", ret |-> << >>, calls |-> << >>,
                        reads |-> << >>]]

CallGetAvgData ==
    /\ rs.pc = "ready"
    /\ LET r == getAvgData(rs.dataArray, rs.bufferLength, rs.resultSlots,
                           rs.maxMinValue, rs.outMaxValue, rs.global)
       IN rs' = [rs EXCEPT !.pc = "getAvgData",
                           !.out = [threw |-> r.threw, ret |-> r.ret, calls |-> << >>,
                                    reads |-> r.reads],
                           !.global = IF rs.global.declared
                                      THEN [declared |-> TRUE,
                                            val |-> OrElse(rs.global.val,
                                                           Num(DefaultNormalize))]
                                      ELSE rs.global]
    /\ UNCHANGED <<context, argAllowFakeData, allowFakeData, supportAnalyse,
                   analyserNode, splitAnalyseNodeLeft, splitAnalyseNodeRight,
                   _fastFourierTransform, _minDecibels, _maxDecibels, _bufferLength,
                   _dataArray, _dataTimeArray, heap, bmpSoundAnalyze, isPlaying, pc, k,
                   locals, log, last, regOp, kept,
                   storageVars, cpuVars, tick, sprite>>

CallEachAvgData ==
    /\ rs.pc = "ready"
    /\ rs' = [rs EXCEPT !.pc = "eachAvgData",
                        !.out = eachAvgData(rs.dataArray, rs.bufferLength,
                                            rs.resultSlots, rs.maxMinValue,
                                            rs.outMaxValue)]
    /\ UNCHANGED <<context, argAllowFakeData, allowFakeData, supportAnalyse,
                   analyserNode, splitAnalyseNodeLeft, splitAnalyseNodeRight,
                   _fastFourierTransform, _minDecibels, _maxDecibels, _bufferLength,
                   _dataArray, _dataTimeArray, heap, bmpSoundAnalyze, isPlaying, pc, k,
                   locals, log, last, regOp, kept,
                   storageVars, cpuVars, tick, sprite>>

NextResample == CallGetAvgData \/ CallEachAvgData

SpecResample == InitResample /\ [][NextResample]_vars

\* ======================================================= LocalStorage plugin
\* Strings are sequences of tokens: single characters, or words that no
\* operation splits.  A JavaScript value handed to or returned by the plugin is
\* a tagged tuple: <<"string", token, ...>>, <<"array", element, ...>>,
\* <<"object", name, value, ...>>, <<"boolean", "true" or "false">>,
\* <<"undefined">>.  localStorage is the sequence of its items [name, text] in
\* the order localStorage.key(i) gives them.

JString(text) == <<"string">> \o text
JUndefined == <<"undefined">>
JBoolean(b) == <<"boolean", IF b THEN "true" ELSE "false">>

Quote == "\""
Backslash == "\\"

\* JSON.stringify of a string's characters: quotes and backslashes are escaped
RECURSIVE Escape(_)
Escape(text) ==
    IF text = << >> THEN << >>
    ELSE (IF Head(text) \in {Quote, Backslash} THEN <<Backslash, Head(text)>>
          ELSE <<Head(text)>>) \o Escape(Tail(text))

\* the members of an object, as JSON text
RECURSIVE Members(_)
Members(pairs) ==
    IF pairs = << >> THEN << >>
    ELSE <<Quote, pairs[1], Quote, ":", pairs[2]>>
         \o (IF Len(pairs) > 2 THEN <<",">> ELSE << >>)
         \o Members(SubSeq(pairs, 3, Len(pairs)))

\* the elements of an array, as JSON text
RECURSIVE Elements(_)
Elements(items) ==
    IF items = << >> THEN << >>
    ELSE <<Head(items)>> \o (IF Len(items) > 1 THEN <<",">> ELSE << >>)
         \o Elements(Tail(items))

\* lines 120-122: JSON.stringify(val); undefined for undefined
encode(val) ==
    IF val[1] = "string" THEN JString(<<Quote>> \o Escape(Tail(val)) \o <<Quote>>)
    ELSE IF val[1] = "array" THEN JString(<<"[">> \o Elements(Tail(val)) \o <<"]">>)
    ELSE IF val[1] = "object" THEN JString(<<"{">> \o Members(Tail(val)) \o <<"}">>)
    ELSE IF val[1] = "boolean" THEN JString(<<val[2]>>)
    ELSE JUndefined

\* the characters of a JSON string literal's body, or <<"error">> when a quote is
\* not escaped or a backslash escapes nothing
RECURSIVE Unescape(_)
Unescape(text) ==
    IF text = << >> THEN << >>
    ELSE IF Head(text) = Backslash
    THEN IF Len(text) < 2 \/ text[2] \notin {Quote, Backslash} THEN <<"error">>
         ELSE LET rest == Unescape(SubSeq(text, 3, Len(text)))
              IN  IF rest = <<"error">> THEN rest ELSE <<text[2]>> \o rest
    ELSE IF Head(text) = Quote THEN <<"error">>
    ELSE LET rest == Unescape(Tail(text))
         IN  IF rest = <<"error">> THEN rest ELSE <<Head(text)>> \o rest

Punctuation == {Quote, Backslash, "[", "]", "{", "}", ",", ":"}

\* a JSON number
IsNumber(token) == token \in {"1", "2", "3", "12"}

\* the elements of the JSON array body text, or <<"error">>
ParseElements(text) ==
    IF text = << >> THEN << >>
    ELSE IF Len(text) % 2 = 1
            /\ \A i \in 1..Len(text) :
                  IF i % 2 = 1 THEN IsNumber(text[i]) ELSE text[i] = ","
    THEN [i \in 1..((Len(text) + 1) \div 2) |-> text[2 * i - 1]]
    ELSE <<"error">>

\* the name, value pairs of the JSON object body text, or <<"error">>
ParseMembers(text) ==
    IF text = << >> THEN << >>
    ELSE IF (Len(text) + 1) % 6 = 0
            /\ \A i \in 1..Len(text) :
                  CASE i % 6 = 1 -> text[i] = Quote
                    [] i % 6 = 2 -> text[i] \notin Punctuation
                    [] i % 6 = 3 -> text[i] = Quote
                    [] i % 6 = 4 -> text[i] = ":"
                    [] i % 6 = 5 -> IsNumber(text[i])
                    [] OTHER -> text[i] = ","
    THEN [i \in 1..(2 * ((Len(text) + 1) \div 6)) |->
             IF i % 2 = 1 THEN text[6 * ((i - 1) \div 2) + 2]
             ELSE text[6 * ((i - 1) \div 2) + 5]]
    ELSE <<"error">>

\* lines 124-126: JSON.parse(str); threw is "SyntaxError" for text that is not JSON
decode(str) ==
    LET n == Len(str)
        body == SubSeq(str, 2, n - 1)
        bad == [threw |-> "SyntaxError", ret |-> JUndefined]
    IN  IF n >= 2 /\ str[1] = Quote /\ str[n] = Quote
        THEN IF Unescape(body) = <<"error">> THEN bad
             ELSE [threw |-> "none", ret |-> JString(Unescape(body))]
        ELSE IF n >= 2 /\ str[1] = "[" /\ str[n] = "]"
        THEN IF ParseElements(body) = <<"error">> THEN bad
             ELSE [threw |-> "none", ret |-> <<"array">> \o ParseElements(body)]
        ELSE IF n >= 2 /\ str[1] = "{" /\ str[n] = "}"
        THEN IF ParseMembers(body) = <<"error">> THEN bad
             ELSE [threw |-> "none", ret |-> <<"object">> \o ParseMembers(body)]
        ELSE IF n = 1 /\ str[1] \in {"true", "false"}
        THEN [threw |-> "none", ret |-> <<"boolean", str[1]>>]
        ELSE bad

\* -------------------------------------------------- the browser's storage
JNull == <<"null">>

\* What the browser offers: a working localStorage; one whose setItem throws
\* (no quota, private browsing); or no localStorage object at all.
StorageHosts == {"object", "full", "undefined"}

\* the index of the item called name, or 0
ItemIndex(store, name) ==
    IF \E i \in 1..Len(store) : store[i].name = name
    THEN CHOOSE i \in 1..Len(store) : store[i].name = name
    ELSE 0

\* localStorage.getItem(name): the item's text as a string, or null
getItem(store, name) ==
    IF ItemIndex(store, name) = 0 THEN JNull
    ELSE JString(store[ItemIndex(store, name)].text)

\* String(val), which setItem applies to the value it is given
ToText(val) == IF val[1] = "string" THEN Tail(val) ELSE <<val[1]>>

\* localStorage.setItem(name, val)
setItem(store, name, val) ==
    IF ItemIndex(store, name) = 0
    THEN Append(store, [name |-> name, text |-> ToText(val)])
    ELSE [store EXCEPT ![ItemIndex(store, name)].text = ToText(val)]

\* store without its item at index i
RemoveAt(store, i) ==
    [j \in 1..(Len(store) - 1) |-> IF j < i THEN store[j] ELSE store[j + 1]]

\* localStorage.removeItem(name)
removeItem(store, name) ==
    IF ItemIndex(store, name) = 0 THEN store ELSE RemoveAt(store, ItemIndex(store, name))

\* str.indexOf(pat) !== -1
Contains(str, pat) ==
    \E i \in 0..(Len(str) - Len(pat)) : SubSeq(str, i + 1, i + Len(pat)) = pat

\* ------------------------------------------------------------ the plugin
\* lines 42-54
isSupported(host) == host = "object"

\* this.id + '.' + key
ItemName(key) == id \o <<".">> \o key

\* faulty variant of getValue: the stored text is returned as it is
getRaw(raw, defaultValue) == IF raw = JNull THEN defaultValue ELSE raw

\* lines 78-86: what get returns for the item read
getValue(raw, defaultValue) ==
    IF raw = JNull THEN defaultValue
    ELSE IF decode(Tail(raw)).threw = "none" THEN decode(Tail(raw)).ret
    ELSE raw

\* faulty variant of removeKey: the last item goes
removeLastItem(store, name) == IF store = << >> THEN store ELSE RemoveAt(store, Len(store))

\* line 105
removeKey(store, name) == removeItem(store, name)

\* lines 112-117: the loop, from index i (1-based) down to the first item
RECURSIVE resetFrom(_, _, _)
resetFrom(store, i, pat) ==
    IF i < 1 THEN store
    ELSE IF Contains(store[i].name, pat) THEN resetFrom(RemoveAt(store, i), i - 1, pat)
    ELSE resetFrom(store, i - 1, pat)

\* the call made: its name, key, other argument, result and outcome
Called(op, key, value, ret, threw, everSet) ==
    [op |-> op, key |-> key, value |-> value, ret |-> ret, threw |-> threw,
     everSet |-> everSet]

\* the plugin after its constructor (lines 18-23), on a host with empty storage
InitStorage ==
    /\ Constructed([createAnalyser |-> FALSE, createChannelSplitter |-> FALSE], FALSE)
    /\ rs = [pc |-> "off"]
    /\ storageHost \in StorageHosts
    /\ localStorage = << >>
    /\ id = << >>
    /\ supported = isSupported(storageHost)
    /\ lsLast = NoCall
    /\ CpuUnused

analyserVars ==
    <<context, argAllowFakeData, allowFakeData, supportAnalyse, analyserNode,
      splitAnalyseNodeLeft, splitAnalyseNodeRight, _fastFourierTransform,
      _minDecibels, _maxDecibels, _bufferLength, _dataArray, _dataTimeArray,
      heap, bmpSoundAnalyze, isPlaying, pc, k, locals, log, last, regOp, rs, kept,
      tick, sprite>>

Keys == { <<"k">>, <<"b", ".", "k">> }

IdInputs == { JString(<<"a">>), JString(<<"a", ".", "b">>), JUndefined }

Values == { JString(<<"b", Quote, "r">>), <<"array", "1", "2", "3">>,
            <<"object", "stars", "3", "score", "12">>, JUndefined }

Defaults == { JString(<<"defaultVal">>), JUndefined }

\* lines 33-35
setId(newId) ==
    /\ id' = IF newId = JUndefined \/ newId = JString(<< >>) THEN << >> ELSE Tail(newId)
    /\ lsLast' = Called("setId", << >>, newId, JUndefined, "none", lsLast.everSet)
    /\ UNCHANGED <<localStorage, storageHost, supported, analyserVars, cpuVars>>

\* lines 62-67; the storage takes MaxItems items
set(key, value) ==
    /\ ItemIndex(localStorage, ItemName(key)) # 0 \/ Len(localStorage) < MaxItems
    /\ IF ~supported
       THEN /\ lsLast' = Called("set", key, value, JBoolean(FALSE), "none",
                                lsLast.everSet)
            /\ UNCHANGED localStorage
       ELSE /\ localStorage' = setItem(localStorage, ItemName(key), encode(value))
            /\ lsLast' = Called("set", key, value, JUndefined, "none",
                                lsLast.everSet \cup {key})
    /\ UNCHANGED <<storageHost, id, supported, analyserVars, cpuVars>>

\* lines 76-87
get(key, defaultValue) ==
    /\ IF storageHost = "undefined"
       THEN lsLast' = Called("get", key, defaultValue, JUndefined, "ReferenceError",
                             lsLast.everSet)
       ELSE lsLast' = Called("get", key, defaultValue,
                             getValue(getItem(localStorage, ItemName(key)), defaultValue),
                             "none", lsLast.everSet)
    /\ UNCHANGED <<localStorage, storageHost, id, supported, analyserVars, cpuVars>>

\* lines 95-97
has(key) ==
    /\ IF storageHost = "undefined"
       THEN lsLast' = Called("has", key, JUndefined, JUndefined, "ReferenceError",
                             lsLast.everSet)
       ELSE lsLast' = Called("has", key, JUndefined,
                             JBoolean(getItem(localStorage, ItemName(key)) # JNull),
                             "none", lsLast.everSet)
    /\ UNCHANGED <<localStorage, storageHost, id, supported, analyserVars, cpuVars>>

\* lines 104-106
remove(key) ==
    /\ IF storageHost = "undefined"
       THEN /\ lsLast' = Called("remove", key, JUndefined, JUndefined,
                                "ReferenceError", lsLast.everSet)
            /\ UNCHANGED localStorage
       ELSE /\ localStorage' = removeKey(localStorage, ItemName(key))
            /\ lsLast' = Called("remove", key, JUndefined, JUndefined, "none",
                                lsLast.everSet)
    /\ UNCHANGED <<storageHost, id, supported, analyserVars, cpuVars>>

\* lines 111-118
reset ==
    /\ IF storageHost = "undefined"
       THEN /\ lsLast' = Called("reset", << >>, JUndefined, JUndefined,
                                "ReferenceError", lsLast.everSet)
            /\ UNCHANGED localStorage
       ELSE /\ localStorage' = resetFrom(localStorage, Len(localStorage),
                                         id \o <<".">>)
            /\ lsLast' = Called("reset", << >>, JUndefined, JUndefined, "none",
                                lsLast.everSet)
    /\ UNCHANGED <<storageHost, id, supported, analyserVars, cpuVars>>

NextStorage ==
    \/ \E newId \in IdInputs : setId(newId)
    \/ \E key \in Keys, value \in Values : set(key, value)
    \/ \E key \in Keys, defaultValue \in Defaults : get(key, defaultValue)
    \/ \E key \in Keys : has(key)
    \/ \E key \in Keys : remove(key)
    \/ reset

SpecStorage == InitStorage /\ [][NextStorage]_vars

\* ===================================================== Phaser.Plugin.SaveCPU
\* The plugin's fields are the record saveCPU; frame holds the position of the
\* loop in the frame (phase) and what is known of the frame: first (no frame
\* has been drawn yet), requested (a render was asked for in this frame),
\* rendered (this frame was drawn), waiting (a pointer change found by
\* postUpdate has not been drawn yet), owed (frames gone undrawn while waiting),
\* shown (this frame drew a pointer change that was waiting).
\* The plugin's fields are the record saveCPU; game.renderType is "CANVAS" or
\* "HEADLESS"; game.updateRender is the name of the function it holds ("none"
\* on a Phaser that has no updateRender).  this.hrts is kept as `elapsed`, the
\* time from this.hrts to the time stamp of the latest animation frame.

\* lines 130-133: the setter of renderOnFPS; 1000 / v is kept as a fraction
setRenderOnFPS(p, v) ==
    [p EXCEPT !._renderOnFPS = v, !._tsdiff = [num |-> 1000, den |-> v]]

\* line 173: diff > this._tsdiff (1000 / 0 is Infinity)
exceedsTsdiff(diff, ts) == ts.den # 0 /\ diff * ts.den > ts.num

\* lines 126-157, on a game with (lines 162-168) or without (lines 158-161)
\* game.updateRender
InitSaveCPU ==
    \E hasUpdateRender \in BOOLEAN :
        /\ game = [updateRender |-> IF hasUpdateRender THEN "updateRenderReal"
                                    ELSE "none",
                   renderType |-> "CANVAS"]
        /\ saveCPU = setRenderOnFPS(
                        [loaded |-> TRUE, _renderOnFPS |-> 0,
                         _tsdiff |-> [num |-> 0, den |-> 1],
                         renderOnPointerChange |-> FALSE,
                         renderDirty |-> TRUE,
                         renderType |-> IF hasUpdateRender THEN "undefined"
                                        ELSE "CANVAS",
                         switchRender |-> IF hasUpdateRender THEN "_switchRender1"
                                          ELSE "_switchRender0",
                         fpsDirty |-> FALSE,
                         elapsed |-> MaxDiff], 30)
        /\ input = [x |-> Num(0), y |-> Num(0), isDown |-> Bool(FALSE),
                    oldx |-> Undef, oldy |-> Undef, oldDown |-> Undef]
        /\ frame = [phase |-> "update", first |-> TRUE, requested |-> FALSE,
                    rendered |-> FALSE, waiting |-> FALSE, owed |-> 0,
                    shown |-> FALSE]

\* lines 184-193
_switchRender0(p, g) ==
    [p |-> [p EXCEPT !.renderDirty = FALSE],
     g |-> [g EXCEPT !.renderType = IF p.renderDirty THEN p.renderType
                                    ELSE "HEADLESS"]]

\* lines 194-202
_switchRender1(p, g) ==
    [p |-> p,
     g |-> [g EXCEPT !.updateRender = IF p.renderDirty THEN "updateRenderReal"
                                      ELSE "updateRenderNull"]]

\* this.switchRender(), set by _init0 (line 160) or _init1 (line 167)
switchRender(p, g) ==
    IF p.switchRender = "_switchRender0" THEN _switchRender0(p, g)
    ELSE _switchRender1(p, g)

\* lines 203-206
forceRender(p) == [p EXCEPT !.renderDirty = TRUE]

\* faulty variant of _forceRenderOnPointerChange: the change is recorded and no
\* render is forced
pointerChangeRecordedOnly(p, inp) ==
    IF ~p.renderOnPointerChange
    THEN [p |-> p, inp |-> inp, ret |-> Bool(FALSE), seen |-> FALSE]
    ELSE [p |-> p,
          inp |-> [inp EXCEPT !.oldx = inp.x, !.oldy = inp.y, !.oldDown = inp.isDown],
          ret |-> Undef,
          seen |-> inp.oldx # inp.x \/ inp.oldy # inp.y \/ inp.oldDown # inp.isDown]

\* lines 207-223; ret is the value returned (none after line 211: undefined),
\* seen tells whether a change of the pointer was found
_forceRenderOnPointerChange(p, inp) ==
    IF ~p.renderOnPointerChange
    THEN [p |-> p, inp |-> inp, ret |-> Bool(FALSE), seen |-> FALSE]
    ELSE LET moved == inp.oldx # inp.x \/ inp.oldy # inp.y
             p1 == IF moved THEN forceRender(p) ELSE p
             inp1 == IF moved THEN [inp EXCEPT !.oldx = inp.x, !.oldy = inp.y]
                     ELSE inp
             pressed == inp1.oldDown # inp1.isDown
             p2 == IF pressed THEN forceRender(p1) ELSE p1
             inp2 == IF pressed THEN [inp1 EXCEPT !.oldDown = inp1.isDown] ELSE inp1
         IN  [p |-> p2, inp |-> inp2, ret |-> Undef, seen |-> moved \/ pressed]

\* lines 224-234
_forceRenderOnFPS(p) ==
    IF p._renderOnFPS # 0 /\ p.fpsDirty
    THEN [p |-> forceRender([p EXCEPT !.fpsDirty = FALSE]), ret |-> Bool(TRUE)]
    ELSE [p |-> p, ret |-> Bool(FALSE)]

\* the value x is true in a condition
Truthy(x) == x.t \in {"boolean", "number"} /\ x.v # 0

\* faulty variant of postUpdate: the render is never switched
postUpdateNoSwitch(p, g, inp) ==
    LET f == IF p.renderDirty THEN [p |-> p, ret |-> Bool(FALSE)]
             ELSE _forceRenderOnFPS(p)
        c == IF p.renderDirty \/ Truthy(f.ret)
             THEN [p |-> f.p, inp |-> inp, ret |-> Bool(FALSE), seen |-> FALSE]
             ELSE _forceRenderOnPointerChange(f.p, inp)
    IN  [p |-> c.p, g |-> g, inp |-> c.inp,
         forced |-> Truthy(f.ret), seen |-> c.seen]

\* lines 235-241: a || b || c evaluates b only if a is false, c only if both are
postUpdate(p, g, inp) ==
    LET f == IF p.renderDirty THEN [p |-> p, ret |-> Bool(FALSE)]
             ELSE _forceRenderOnFPS(p)
        c == IF p.renderDirty \/ Truthy(f.ret)
             THEN [p |-> f.p, inp |-> inp, ret |-> Bool(FALSE), seen |-> FALSE]
             ELSE _forceRenderOnPointerChange(f.p, inp)
        sw == IF p.renderDirty \/ Truthy(f.ret) \/ Truthy(c.ret)
              THEN switchRender(c.p, g)
              ELSE [p |-> c.p, g |-> g]
    IN  [p |-> sw.p, g |-> sw.g, inp |-> c.inp,
         forced |-> Truthy(f.ret), seen |-> c.seen]

\* lines 242-248
postRender(p, g) ==
    IF p.renderDirty THEN switchRender([p EXCEPT !.renderDirty = FALSE], g)
    ELSE [p |-> p, g |-> g]

\* the values given to renderOnFPS; the time between two animation frames (ms)
FpsInputs == {0, 30}
FrameTimes == {17, 34}
PointerPositions == {0, 1}

\* lines 130-133: this.renderOnFPS = v, set by the game between two frames
SetRenderOnFPS(v) ==
    /\ frame.phase = "update"
    /\ saveCPU._renderOnFPS # v
    /\ saveCPU' = setRenderOnFPS(saveCPU, v)
    /\ UNCHANGED <<game, input, frame, analyserVars, storageVars>>

\* this.renderOnPointerChange = b, set by the game between two frames
SetRenderOnPointerChange(b) ==
    /\ frame.phase = "update"
    /\ saveCPU.renderOnPointerChange # b
    /\ saveCPU' = [saveCPU EXCEPT !.renderOnPointerChange = b]
    /\ UNCHANGED <<game, input, frame, analyserVars, storageVars>>

\* lines 203-206, called by the game: in its update function, or later in the
\* frame (then the frame has had a request after postUpdate)
ForceRender ==
    /\ frame.phase \in {"update", "render", "postRender"}
    /\ ~saveCPU.renderDirty
    /\ saveCPU' = forceRender(saveCPU)
    /\ frame' = IF frame.phase = "update" THEN frame
                ELSE [frame EXCEPT !.requested = TRUE]
    /\ UNCHANGED <<game, input, analyserVars, storageVars>>

\* lines 169-183: the animation-frame callback, dt ms after the one before
TrackFPS(dt) ==
    /\ frame.phase = "update"
    /\ LET diff == saveCPU.elapsed + dt
           fires == exceedsTsdiff(diff, saveCPU._tsdiff)
       IN  /\ fires \/ diff <= MaxDiff
           /\ saveCPU' = [saveCPU EXCEPT !.fpsDirty = IF fires THEN TRUE ELSE @,
                                         !.elapsed = IF fires THEN 0 ELSE diff]
    /\ UNCHANGED <<game, input, frame, analyserVars, storageVars>>

\* host: the pointer moves between two frames
PointerMove(nx, ny) ==
    /\ frame.phase = "update"
    /\ <<input.x, input.y>> # <<Num(nx), Num(ny)>>
    /\ input' = [input EXCEPT !.x = Num(nx), !.y = Num(ny)]
    /\ UNCHANGED <<game, saveCPU, frame, analyserVars, storageVars>>

\* host: the pointer goes down or up between two frames
PointerPress ==
    /\ frame.phase = "update"
    /\ input' = [input EXCEPT !.isDown = Bool(@.v = 0)]
    /\ UNCHANGED <<game, saveCPU, frame, analyserVars, storageVars>>

\* Phaser's loop calls postUpdate (lines 235-241) at the end of the logic update
PostUpdate ==
    /\ frame.phase = "update"
    /\ LET r == postUpdate(saveCPU, game, input)
       IN  /\ saveCPU' = r.p
           /\ game' = r.g
           /\ input' = r.inp
           /\ frame' = [frame EXCEPT
                  !.phase = "render",
                  !.requested = saveCPU.renderDirty \/ r.forced \/ r.seen,
                  !.rendered = FALSE,
                  !.waiting = @ \/ r.seen,
                  !.owed = IF frame.waiting THEN @ ELSE 0]
    /\ UNCHANGED <<analyserVars, storageVars>>

\* the render path of the game is on
RenderPathOn(g) ==
    IF g.updateRender = "none" THEN g.renderType # "HEADLESS"
    ELSE g.updateRender = "updateRenderReal"

\* host: Phaser's loop comes to its render step: it draws the frame when the
\* render path is on (and then calls postRender), and draws nothing otherwise
GameRender ==
    /\ frame.phase = "render"
    /\ frame' = IF RenderPathOn(game)
                THEN [frame EXCEPT !.phase = "postRender", !.rendered = TRUE,
                                   !.waiting = FALSE, !.owed = 0,
                                   !.shown = frame.waiting]
                ELSE [frame EXCEPT !.phase = "end",
                                   !.owed = IF frame.waiting /\ @ < 2 THEN @ + 1 ELSE @]
    /\ UNCHANGED <<game, input, saveCPU, analyserVars, storageVars>>

\* the rendering loop calls postRender (lines 242-248) after drawing
PostRender ==
    /\ frame.phase = "postRender"
    /\ LET r == postRender(saveCPU, game)
       IN  /\ saveCPU' = r.p
           /\ game' = r.g
    /\ frame' = [frame EXCEPT !.phase = "end"]
    /\ UNCHANGED <<input, analyserVars, storageVars>>

\* host: the frame is over, the next animation frame begins
GameNextFrame ==
    /\ frame.phase = "end"
    /\ frame' = [frame EXCEPT !.phase = "update", !.requested = FALSE,
                              !.rendered = FALSE, !.shown = FALSE,
                              !.first = @ /\ ~frame.rendered]
    /\ UNCHANGED <<game, input, saveCPU, analyserVars, storageVars>>

InitGame ==
    /\ Constructed([createAnalyser |-> FALSE, createChannelSplitter |-> FALSE], FALSE)
    /\ rs = [pc |-> "off"]
    /\ StorageUnused
    /\ InitSaveCPU

GameLoop == PostUpdate \/ GameRender \/ PostRender \/ GameNextFrame

NextSaveCPU ==
    \/ \E v \in FpsInputs : SetRenderOnFPS(v)
    \/ \E b \in BOOLEAN : SetRenderOnPointerChange(b)
    \/ ForceRender
    \/ \E dt \in FrameTimes : TrackFPS(dt)
    \/ \E nx \in PointerPositions, ny \in PointerPositions : PointerMove(nx, ny)
    \/ PointerPress
    \/ PostUpdate
    \/ GameRender
    \/ PostRender
    \/ GameNextFrame

SpecSaveCPU == InitGame /\ [][NextSaveCPU]_vars

\* the browser keeps calling the animation-frame callback of Phaser's loop
FairSaveCPU == InitGame /\ [][NextSaveCPU]_vars /\ WF_vars(GameLoop)


\* ================================================================ properties
PowersOfTwoInRange == { 2^e : e \in 5..11 }

\* the number of entries of sequence q equal to x
Count(q, x) == Cardinality({ i \in 1..Len(q) : q[i] = x })

\* q without its entry at index i
WithoutIndex(q, i) == [j \in 1..(Len(q) - 1) |-> IF j < i THEN q[j] ELSE q[j + 1]]

FirstIndexOf(q, x) == CHOOSE i \in 1..Len(q) : q[i] = x /\ \A j \in 1..(i - 1) : q[j] # x
LastIndexOf(q, x) == CHOOSE i \in 1..Len(q) : q[i] = x /\ \A j \in (i + 1)..Len(q) : q[j] # x

WithoutFirst(q, x) == IF Count(q, x) = 0 THEN q ELSE WithoutIndex(q, FirstIndexOf(q, x))
WithoutLast(q, x) == IF Count(q, x) = 0 THEN q ELSE WithoutIndex(q, LastIndexOf(q, x))

\* the consumers called by the update in progress or just returned, in call order
Invoked == [i \in 1..(Len(log) - 1) |-> log[i + 1].target]

\* update has returned after dispatching a frame
FrameDispatched == pc = "idle" /\ last.op = "update" /\ log # << >>

\* C1: after any sequence of assignments to fastFourierTransform, fftSize is a
\* power of two in [32, 2048] (any other value assigned is rejected).
C1_FftSizePowerOfTwo == _fastFourierTransform \in PowersOfTwoInRange

\* C2: in every frame update dispatches, the frequency array and the time array
\* both have exactly as many elements as the bufferLength carried in the frame.
C2_FrameArrayLengths ==
    \A i \in 1..Len(log) :
        /\ ALen(heap[log[i].args[1].v]) = log[i].args[3].v
        /\ ALen(heap[log[i].args[2].v]) = log[i].args[3].v

\* C3: a tick that produces a frame dispatches onAnalyseUpdate exactly once, first,
\* and then calls every registry entry exactly once, in registry order, each with
\* the six values of the event; add appends to the registry and remove takes one
\* entry out, the others keeping their order, so registry order is insertion order.
C3_DispatchOrder ==
    /\ log # << >> =>
         /\ log[1].target = "onAnalyseUpdate"
         /\ \A i \in 2..Len(log) :
              /\ log[i].target = bmpSoundAnalyze[i - 1]
              /\ log[i].args = log[1].args
         /\ Len(log) = IF pc = "idle" THEN Len(bmpSoundAnalyze) + 1 ELSE k + 1
    /\ regOp.name = "add" => bmpSoundAnalyze = regOp.before \o <<regOp.arg>>
    /\ regOp.name = "remove" =>
         \/ bmpSoundAnalyze = regOp.before
         \/ \E i \in 1..Len(regOp.before) : bmpSoundAnalyze = WithoutIndex(regOp.before, i)

\* a tick has called two different consumers, after one entry was removed
C3_Witness ==
    /\ FrameDispatched
    /\ regOp.name = "remove"
    /\ Len(regOp.before) = Len(bmpSoundAnalyze) + 1
    /\ Len(bmpSoundAnalyze) >= 2
    /\ bmpSoundAnalyze[1] # bmpSoundAnalyze[2]
    /\ Len(log) = Len(bmpSoundAnalyze) + 1

\* C4: an analyser constructed with allowFakeData = false on a host without
\* createAnalyser never dispatches a frame: no event, no consumer call.
C4_NoFrameWithoutCapability ==
    (~context.createAnalyser /\ ~argAllowFakeData) => log = << >>

\* C5: a tick on which isPlaying is false dispatches no event, calls no consumer
\* and leaves the stored sample arrays as they were.
C5_NoDispatchWhenNotPlaying ==
    [][ (pc = "idle" /\ last'.op = "update" /\ ~isPlaying) =>
            /\ log' = << >>
            /\ pc' = "idle"
            /\ UNCHANGED <<_dataArray, _dataTimeArray, heap>> ]_vars

\* a tick ran while the sound was stopped, with a consumer registered and the
\* arrays holding the samples of an earlier frame
C5_Witness ==
    /\ pc = "idle"
    /\ last.op = "update"
    /\ ~isPlaying
    /\ log = << >>
    /\ bmpSoundAnalyze # << >>
    /\ heap[_dataArray] # NewUint8Array(ALen(heap[_dataArray]))

\* C6 (as stated): removeBitmapSoundAnalyse(c) removes the first (lowest-index)
\* entry equal to c and nothing else; with no such entry the registry is unchanged.
C6_RemovesFirstMatch ==
    regOp.name = "remove" => bmpSoundAnalyze = WithoutFirst(regOp.before, regOp.arg)

\* C6 (amended): removeBitmapSoundAnalyse(c) removes exactly one entry, the last
\* (highest-index) one equal to c, the others keeping their order; with no such
\* entry the registry is unchanged; no error is raised.
C6_RemovesLastMatch ==
    /\ regOp.name = "remove" => bmpSoundAnalyze = WithoutLast(regOp.before, regOp.arg)
    /\ last.op = "remove" => last.threw = "none"

\* a removal from a registry where the first and the last match differ in effect
C6_Witness ==
    /\ regOp.name = "remove"
    /\ WithoutFirst(regOp.before, regOp.arg) # WithoutLast(regOp.before, regOp.arg)

\* add(c) directly followed, among registry operations, by remove(c) leaves the
\* registry as large as before the add
AddThenRemoveSize ==
    (regOp.name = "remove" /\ regOp.chain0 >= 0) => Len(bmpSoundAnalyze) = regOp.chain0

\* C7 (as stated): add(c) then remove(c) leaves the registry size as before the
\* add, and a consumer on which remove was called is not called by a later tick.
C7_RemovedNeverInvoked ==
    /\ AddThenRemoveSize
    /\ regOp.name = "remove" => Count(Invoked, regOp.arg) = 0

\* C7 (amended): add(c) then remove(c) leaves the registry size as before the add;
\* remove(c) takes out one entry of c, and a later tick calls c once for every
\* entry of c that is left: not at all exactly when c had at most one entry.
C7_RemovedInvokedPerEntryLeft ==
    /\ AddThenRemoveSize
    /\ (FrameDispatched /\ regOp.name = "remove") =>
          Count(Invoked, regOp.arg) =
             IF Count(regOp.before, regOp.arg) = 0 THEN 0
             ELSE Count(regOp.before, regOp.arg) - 1

\* add(c) on a registry holding c, then remove(c), then a tick that dispatched
C7_Witness ==
    /\ FrameDispatched
    /\ regOp.name = "remove"
    /\ regOp.chain0 >= 1
    /\ Count(regOp.before, regOp.arg) >= 2

\* --------------------------------------------------- re-sampler properties
\* the sum of samples data[from..to] (1-based, inclusive)
RECURSIVE SumRange(_, _, _)
SumRange(data, from, to) ==
    IF from > to THEN 0 ELSE data[from] + SumRange(data, from + 1, to)

\* floor(outputMax * value / inputMax)
Scaled(value, inputMax, outputMax) == Num((outputMax.v * value) \div inputMax.v)

\* the scales of the call made, an omitted inputMax read as 256 and an omitted
\* outputMax as inputMax
InputMax == IF rs.maxMinValue = Undef THEN Num(256) ELSE rs.maxMinValue
OutputMax == IF rs.outMaxValue = Undef THEN InputMax ELSE rs.outMaxValue

\* C8: with bucketCount = sourceLength, getAvgData returns sourceLength elements,
\* element i being floor(outputMax * data[i] / inputMax).
C8_OneToOne ==
    (rs.pc = "getAvgData" /\ rs.resultSlots = rs.bufferLength) =>
        /\ rs.out.threw = "none"
        /\ Len(rs.out.ret) = rs.bufferLength
        /\ \A i \in 1..rs.bufferLength :
             rs.out.ret[i] = Scaled(rs.dataArray[i], InputMax, OutputMax)

\* C9: with sourceLength a multiple of bucketCount and larger, getAvgData returns
\* bucketCount entries, entry j being the scaled floor of the mean of the j-th
\* run of sourceLength / bucketCount samples.
C9_ExactRuns ==
    (rs.pc = "getAvgData" /\ rs.bufferLength % rs.resultSlots = 0
        /\ rs.bufferLength > rs.resultSlots) =>
        LET size == rs.bufferLength \div rs.resultSlots IN
        /\ rs.out.threw = "none"
        /\ Len(rs.out.ret) = rs.resultSlots
        /\ \A j \in 1..rs.resultSlots :
             rs.out.ret[j] =
                Scaled(SumRange(rs.dataArray, (j - 1) * size + 1, j * size) \div size,
                       InputMax, OutputMax)

\* the values produced by the call made: the array returned, or the sizes passed
\* to the callback
Produced ==
    IF rs.pc = "getAvgData" THEN rs.out.ret
    ELSE [j \in 1..Len(rs.out.calls) |-> rs.out.calls[j].size]

\* C10: with sourceLength not a multiple of bucketCount and samples left after
\* bucketCount runs of round(sourceLength / bucketCount) samples, the re-sampler
\* produces bucketCount + 1 entries, the last being the scaled floor of the mean of
\* the samples left, divided by their true number.
C10_RemainderRun ==
    LET n == rs.bufferLength
        m == rs.resultSlots
        left == n - m * RoundDiv(n, m)
    IN  (rs.pc \in {"getAvgData", "eachAvgData"} /\ n % m # 0 /\ left > 0) =>
           /\ rs.out.threw = "none"
           /\ Len(Produced) = m + 1
           /\ Produced[m + 1] =
                 Scaled(SumRange(rs.dataArray, n - left + 1, n) \div left,
                        InputMax, OutputMax)

\* C11: for sourceLength >= 1, bucketCount >= 1 and samples in [0, inputMax],
\* every value the re-sampler produces (the elements getAvgData returns, the
\* scaledValue eachAvgData passes) is an integer in [0, outputMax].
C11_ValuesInRange ==
    rs.pc \in {"getAvgData", "eachAvgData"} =>
        \A j \in 1..Len(Produced) :
            /\ Produced[j].t = "number"
            /\ Produced[j].v >= 0
            /\ Produced[j].v <= OutputMax.v

\* C12: the scaledValue arguments eachAvgData passes to its visitor, in call
\* order, are the array getAvgData returns for the same inputs.
C12_EachMatchesGet ==
    rs.pc = "eachAvgData" =>
        LET g == getAvgData(rs.dataArray, rs.bufferLength, rs.resultSlots,
                            rs.maxMinValue, rs.outMaxValue, rs.global)
        IN  /\ rs.out.threw = "none"
            /\ g.threw = "none"
            /\ Produced = g.ret

\* the values the call made produces when it is given inputMax and outputMax
ProducedWith(inputMax, outputMax) ==
    IF rs.pc = "getAvgData"
    THEN getAvgData(rs.dataArray, rs.bufferLength, rs.resultSlots, inputMax, outputMax,
                    [declared |-> TRUE, val |-> Undef]).ret
    ELSE LET c == eachAvgData(rs.dataArray, rs.bufferLength, rs.resultSlots,
                              inputMax, outputMax).calls
         IN  [j \in 1..Len(c) |-> c[j].size]

\* C13: with inputMax left out, getAvgData and eachAvgData complete normally and
\* produce what they produce for inputMax = 256; with outputMax left out, what
\* they produce for outputMax = inputMax.
C13_DefaultScales ==
    (rs.pc \in {"getAvgData", "eachAvgData"}
        /\ (rs.maxMinValue = Undef \/ rs.outMaxValue = Undef)) =>
        /\ rs.out.threw = "none"
        /\ Produced = ProducedWith(InputMax, OutputMax)

\* ------------------------------------------------- fallback-frame properties
Max(a, b) == IF a > b THEN a ELSE b

\* update has dispatched a frame of generated data (no analyser on the host)
FakeFrame ==
    last.op = "update" /\ last.threw = "none" /\ log # << >> /\ analyserNode = NullNode

\* the array getFakeData returned for the frame dispatched
FakeArray == heap[log[1].args[1].v]

\* the runs of array a are in descending order of value
SortedDescending(a) == \A i \in 1..Len(a) : \A j \in (i + 1)..Len(a) : a[i].v >= a[j].v

FlooredMean(a) == Num(ASum(a) \div ALen(a))

\* C15: in every frame dispatched, in real-analysis and in fallback mode, volume
\* is a number, the floored mean of the frame's frequencyData, and averageLeft
\* and averageRight are numbers.
C15_ScalarLoudness ==
    \A i \in 1..Len(log) :
        /\ log[i].args[4] = FlooredMean(heap[log[i].args[1].v])
        /\ log[i].args[5].t = "number"
        /\ log[i].args[6].t = "number"

\* C16: in every fallback frame frequencyData and timeData are the same generated
\* sequence, in descending order, and averageLeft = averageRight = volume.
C16_FallbackFrame ==
    analyserNode = NullNode =>
        \A i \in 1..Len(log) :
            /\ heap[log[i].args[1].v] = heap[log[i].args[2].v]
            /\ SortedDescending(heap[log[i].args[1].v])
            /\ log[i].args[5] = log[i].args[6]
            /\ log[i].args[6] = log[i].args[4]

\* ------------------------------------------------------ frames across ticks
\* a later tick has dispatched a frame since the listener kept one
LaterFrame == kept.on /\ kept.later /\ log # << >>

\* the arrays kept are not those of the later frame
KeptDistinct == kept.data # log[1].args[1].v /\ kept.time # log[1].args[2].v

\* the arrays kept hold what they held when they were delivered
KeptIntact == heap[kept.data] = kept.dataWas /\ heap[kept.time] = kept.timeWas

\* C17: the frequencyData and timeData arrays delivered at a tick are distinct
\* objects from those delivered at any later tick, and still hold the earlier
\* tick's values after the later tick has run.
C17_FramesNotShared == LaterFrame => KeptDistinct /\ KeptIntact

\* C17 as the code has it: in fallback mode a later frame's array is a new object
\* and the one kept is intact; in real-analysis mode every frame delivers the
\* two arrays allocated by the constructor, which hold the latest tick's values.
C17_FreshOnlyInFallback ==
    LaterFrame =>
        IF analyserNode = NullNode
        THEN KeptDistinct /\ KeptIntact
        ELSE /\ kept.data = log[1].args[1].v /\ kept.time = log[1].args[2].v
             /\ kept.data = 1 /\ kept.time = 2

\* a fallback frame was kept and a later fallback frame holds other values
C17_Witness ==
    /\ LaterFrame
    /\ analyserNode = NullNode
    /\ heap[kept.data] # heap[log[1].args[1].v]

\* a real-analysis frame was kept and a later tick has overwritten its arrays
C17_WitnessOverwritten ==
    /\ LaterFrame
    /\ analyserNode # NullNode
    /\ heap[kept.data] # kept.dataWas

\* ------------------------------------------------------- failing consumers
\* C18: a failure of a listener or of a consumer's updateAnalyse is neither
\* caught nor retried: update ends with the failure reaching its caller, no
\* consumer after the failing one is called in that tick, no step of update
\* changes the registry, and a tick that returns normally has called every entry.
C18_FailurePropagates ==
    /\ [](\A i \in 1..Len(log) :
            log[i].failed =>
               /\ i = Len(log)
               /\ pc = "idle"
               /\ last = [op |-> "update", threw |-> "Error"]
               /\ Count(Invoked, log[i].target) <= Count(bmpSoundAnalyze, log[i].target))
    /\ [](FrameDispatched /\ last.threw = "none" => Invoked = bmpSoundAnalyze)
    /\ [][pc = "loop" => bmpSoundAnalyze' = bmpSoundAnalyze]_vars

\* the first of two consumers has failed: update has returned with the failure
\* and the second consumer was not called
C18_Witness ==
    /\ last = [op |-> "update", threw |-> "Error"]
    /\ Len(bmpSoundAnalyze) = 2
    /\ Len(log) = 2
    /\ log[2].failed

\* ------------------------------------------------- LocalStorage properties
\* a value JSON can carry: a string, an array or an object
Serialisable(v) == v[1] \in {"string", "array", "object"}

\* a get that directly follows set(key, v) with the same key returns v
GetAfterSet ==
    (lsLast.op = "set" /\ lsLast.key = lsLast'.key /\ Serialisable(lsLast.value)) =>
        lsLast'.ret = lsLast.value

\* a get of a key never given to set returns the default value given
GetNeverSet == lsLast'.key \notin lsLast'.everSet => lsLast'.ret = lsLast'.value

\* C19: with localStorage supported, for every key and every JSON-serialisable
\* value v, set(key, v) followed by get(key) under the same storage id returns
\* a value equal to v, and get of a key that was never set returns the
\* defaultValue supplied.
C19_RoundTrip ==
    [][(lsLast'.op = "get" /\ supported) => GetAfterSet /\ GetNeverSet]_vars

\* a get of a key whose item the storage does not hold returns the default
\* value given; so does every get while nothing has been set
GetNoItem ==
    /\ ItemIndex(localStorage, ItemName(lsLast'.key)) = 0 => lsLast'.ret = lsLast'.value
    /\ lsLast'.everSet = {} => lsLast'.ret = lsLast'.value

\* C19 as the code has it: set(key, v) followed by get(key) returns a value equal
\* to v, and get returns the defaultValue supplied when the storage holds no
\* item named id + '.' + key.
C19_RoundTripStoredItem ==
    [][(lsLast'.op = "get" /\ supported) => GetAfterSet /\ GetNoItem]_vars

\* a get has returned the object that was set
C19_Witness ==
    /\ supported
    /\ lsLast.op = "get"
    /\ lsLast.key \in lsLast.everSet
    /\ lsLast.ret = <<"object", "stars", "3", "score", "12">>

\* has(key), under the current id, in storage store
HasIn(store, key) == getItem(store, ItemName(key)) # JNull

\* C20: after reset(), has(k) is false for every key k set through the plugin
\* under the current storage id; after remove(k), has(k) is false, every other
\* item is still in the storage as it was, and has(k2) is as before for every
\* other key k2.
C20_ResetAndRemove ==
    [][/\ (lsLast'.op = "reset" /\ lsLast'.threw = "none") =>
             \A key \in Keys : ~HasIn(localStorage', key)
       /\ (lsLast'.op = "remove" /\ lsLast'.threw = "none") =>
             /\ ~HasIn(localStorage', lsLast'.key)
             /\ \A i \in 1..Len(localStorage) :
                   localStorage[i].name # ItemName(lsLast'.key) =>
                      \E j \in 1..Len(localStorage') : localStorage'[j] = localStorage[i]
             /\ \A key \in Keys \ {lsLast'.key} :
                   HasIn(localStorage', key) = HasIn(localStorage, key)
      ]_vars

\* both keys were set under one id and one of them was removed: the other is
\* still there
C20_Witness ==
    /\ lsLast.op = "remove"
    /\ lsLast.everSet = Keys
    /\ id = <<"a">>
    /\ ~HasIn(localStorage, lsLast.key)
    /\ \E key \in Keys : HasIn(localStorage, key)

\* ------------------------------------------------ the runs of the resampler
RECURSIVE Flatten(_)
Flatten(ss) == IF ss = << >> THEN << >> ELSE Head(ss) \o Flatten(Tail(ss))

Resampled == rs.pc \in {"getAvgData", "eachAvgData"}

\* C23: when bufferLength differs from resultSlots, getAvgData and eachAvgData
\* read every sample dataArray[0 .. bufferLength-1] exactly once and in index
\* order over all the buckets, and read no index beyond the array.
C23_EverySampleOnce ==
    (Resampled /\ rs.bufferLength # rs.resultSlots) =>
        Flatten(rs.out.reads) = [j \in 1..rs.bufferLength |-> j - 1]

\* the same for eachAvgData alone, which does not read the global variable
C23_EachReadsEverySampleOnce ==
    (rs.pc = "eachAvgData" /\ rs.bufferLength # rs.resultSlots) =>
        Flatten(rs.out.reads) = [j \in 1..rs.bufferLength |-> j - 1]

\* C24: in every call of the callback of eachAvgData the fourth argument is the
\* index of the last sample read for that bucket.
C24_FourthArgumentIsLastRead ==
    rs.pc = "eachAvgData" =>
        \A j \in 1..Len(rs.out.calls) :
            rs.out.reads[j] # << >> =>
                rs.out.calls[j].i = rs.out.reads[j][Len(rs.out.reads[j])]

\* C25: the k-th call of the callback of eachAvgData (counting from 0) gets
\* bucket index k, the call for the remainder included.
C25_BucketIndexConsecutive ==
    rs.pc = "eachAvgData" =>
        \A j \in 1..Len(rs.out.calls) : rs.out.calls[j].x = j - 1

\* C26: getAvgData returns, and eachAvgData visits, resultSlots or
\* resultSlots + 1 buckets, never fewer, and every value is a finite number.
C26_BucketCountAndFinite ==
    Resampled =>
        /\ rs.out.threw = "none"
        /\ Len(Produced) \in {rs.resultSlots, rs.resultSlots + 1}
        /\ \A j \in 1..Len(Produced) : Produced[j].t = "number"


\* ------------------------------------------------ removal during the dispatch
\* the consumer loop of the tick in progress has reached its end
LoopDone == pc = "loop" /\ k >= Len(bmpSoundAnalyze)

\* C27: when consumers are removed from the registry from inside an
\* updateAnalyse call, every consumer that was registered when the tick began
\* and was not removed is still called in that tick, once for each of its entries.
C27_RemovalDuringDispatch ==
    LoopDone =>
        \A c \in Consumers :
            c \notin tick.removed => Count(Invoked, c) = Count(tick.registry, c)


\* ------------------------------------------------ hosts without a splitter
\* C28: on a host that has context.createAnalyser, with or without
\* context.createChannelSplitter, every call of update made while the sound is
\* playing raises no error and dispatches a frame.
C28_TickCompletesWithAnalyser ==
    [][ (UpdateBegin /\ isPlaying /\ context.createAnalyser) =>
            /\ last'.threw = "none"
            /\ pc' = "loop"
            /\ log' # << >> ]_vars


\* ------------------------------------------------ destroying the sprite
\* C29: after SoundAnalyseSprite.destroy the bitmap that the sprite's
\* constructor registered is no entry of the analyser's registry, and no tick
\* after the destroy calls it.
C29_DestroyedSpriteUnregistered ==
    sprite.state = "destroyed" =>
        /\ Count(bmpSoundAnalyze, sprite.bmpAnalyseTexture) = 0
        /\ Count(Invoked, sprite.bmpAnalyseTexture) = 0


\* ------------------------------------------------ storage of other ids
\* str begins with pat
StartsWith(str, pat) == Len(str) >= Len(pat) /\ SubSeq(str, 1, Len(pat)) = pat

\* C30: reset() on a plugin with id A removes only items stored under id A:
\* every item whose name does not begin with A + '.', stored under another id
\* or by other code, is in the storage after the reset as it was before.
C30_ResetKeepsOtherIds ==
    [][ reset =>
          \A i \in 1..Len(localStorage) :
             ~StartsWith(localStorage[i].name, id \o <<".">>) =>
                 \E j \in 1..Len(localStorage') : localStorage'[j] = localStorage[i] ]_vars


\* ------------------------------------------------ SaveCPU properties
\* C21 (bounded form): a change of the pointer that postUpdate has found is
\* drawn in the same frame or in the next one.
C21_RenderedWithinOneFrame == frame.phase # "off" => frame.owed <= 1

\* C21: with renderOnPointerChange set, whenever postUpdate finds the pointer
\* position or the pointer-down state changed from the recorded one, the game
\* renders: a frame is drawn through the real render path, in _init0 mode and in
\* _init1 mode alike.
C21_PointerChangeRendered == frame.waiting ~> ~frame.waiting

\* a pointer change found with renderOnFPS = 0 has just been drawn, one frame
\* after it was found, in _init1 mode
C21_Witness ==
    /\ saveCPU.loaded
    /\ saveCPU._renderOnFPS = 0
    /\ saveCPU.renderOnPointerChange
    /\ saveCPU.switchRender = "_switchRender1"
    /\ frame.phase = "postRender"
    /\ frame.rendered
    /\ frame.shown
    /\ ~frame.first
    /\ input.oldx = input.x /\ input.oldy = input.y /\ input.oldDown = input.isDown
    /\ input.x = Num(1)

\* the same in _init0 mode: the change is drawn one frame after it was found,
\* the render type having been HEADLESS
C21_WitnessInit0 ==
    /\ saveCPU.loaded
    /\ saveCPU._renderOnFPS = 0
    /\ saveCPU.renderOnPointerChange
    /\ saveCPU.switchRender = "_switchRender0"
    /\ frame.phase = "postRender"
    /\ frame.shown
    /\ input.oldDown = input.isDown /\ input.isDown = Bool(TRUE)

\* C22: after the first rendered frame, a frame in which nothing asks for a
\* render (no forceRender, no elapsed FPS interval, no pointer change) is not
\* drawn, and the render path is off when the frame ends: renderType is
\* HEADLESS in _init0 mode, updateRender is the no-op in _init1 mode.
C22_IdleFramesNotRendered ==
    (frame.phase = "end" /\ ~frame.first /\ ~frame.requested) =>
        /\ ~frame.rendered
        /\ ~RenderPathOn(game)

====
